---------------------------- MODULE Spec2Model ----------------------------
(***************************************************************************)
(* CAREER-COMPASS (src/app.py): a Streamlit script that loads a job        *)
(* catalog, derives the skill vocabulary, optionally scans an uploaded     *)
(* resume for skills, and on "Analyze" scores every catalog row against    *)
(* the user's profile and shows the three best rows.                       *)
(*                                                                         *)
(* Streamlit runs the whole script again on every interaction, with the    *)
(* widget values kept between runs.  One action of this model is one run   *)
(* of the script; the state is the widget values together with the         *)
(* script's variables as they stand when the run ends.                     *)
(*                                                                         *)
(* A Python string is a sequence of symbols.  A symbol is a delimiter      *)
(* character (space, double quote, comma), a letter, or, in the Interests  *)
(* column, a whole word that the script only ever splits, trims and        *)
(* compares (never searches inside).                                       *)
(*                                                                         *)
(* skill_match_pct is a float in the script; here a score is the exact     *)
(* fraction num/den with den = len(job_skills).                            *)
(***************************************************************************)
EXTENDS Integers, Sequences, FiniteSets, TLC

VARIABLES
    catalog,            \* the frame held by st.cache_data for load_data()
    df,                 \* the frame the script works on (load_data()'s return)
    all_skills,         \* the skill vocabulary, a sorted list
    uploaded_file,      \* the file_uploader's value
    extracted_skills,   \* skills found in the resume, in vocabulary order
    resume_msg,         \* what the resume block displayed
    selected_skills,    \* the skills multiselect's value
    math_score,         \* slider
    code_score,         \* slider
    personality,        \* radio
    selected_interests, \* the interests multiselect's value
    status,             \* what the Analyze block did in this run
    scored,             \* the matching loop's locals, one record per row
    final_results,      \* the list of final scores, one per row
    top_jobs,           \* indices of the rows of df.sort_values(...).head(3)
    missing             \* the missing-skills list shown for each top job

vars == <<catalog, df, all_skills, uploaded_file, extracted_skills, resume_msg,
          selected_skills, math_score, code_score, personality,
          selected_interests, status, scored, final_results, top_jobs, missing>>

---------------------------------------------------------------------------
(* Program constants *)

InterestWeight == 15
PenaltyPoints == 10
PersonalityBonus == 5
ScoreCeiling == 100
TopN == 3
DefaultMath == 75
DefaultCode == 70

(* Bound of the model: the longest catalog considered *)
MaxJobs == 4

---------------------------------------------------------------------------
(* Strings *)

Range(s) == {s[i] : i \in 1..Len(s)}

\* code point of a symbol (of its first character, for a word)
Ord(c) ==
    CASE c = " "  -> 32
      [] c = "\"" -> 34
      [] c = ","  -> 44
      [] c = "P"  -> 80
      [] c = "S"  -> 83
      [] c = "p"  -> 112
      [] c = "s"  -> 115
      [] OTHER    -> 65

\* str.lower() on one symbol
Lower(c) ==
    CASE c = "P" -> "p"
      [] c = "S" -> "s"
      [] OTHER   -> c

LowerStr(s) == [i \in 1..Len(s) |-> Lower(s[i])]

\* Python's str < str: lexicographic by code point
RECURSIVE StrLess(_, _)
StrLess(a, b) ==
    IF b = <<>> THEN FALSE
    ELSE IF a = <<>> THEN TRUE
    ELSE IF Ord(Head(a)) # Ord(Head(b)) THEN Ord(Head(a)) < Ord(Head(b))
    ELSE StrLess(Tail(a), Tail(b))

StrLeq(a, b) == a = b \/ StrLess(a, b)

\* a plausible slip: a tokenizer that drops empty pieces, as str.split() does
RECURSIVE SplitDropEmpty(_, _)
SplitDropEmpty(s, sep) ==
    IF \E i \in 1..Len(s) : s[i] = sep
    THEN LET i == CHOOSE k \in 1..Len(s) :
                    s[k] = sep /\ \A j \in 1..(k-1) : s[j] # sep
             first == SubSeq(s, 1, i-1)
             rest  == SplitDropEmpty(SubSeq(s, i+1, Len(s)), sep)
         IN  IF first = <<>> \/ Range(first) = {" "} THEN rest
             ELSE <<first>> \o rest
    ELSE IF s = <<>> \/ Range(s) = {" "} THEN <<>> ELSE <<s>>

\* str.split(sep): always at least one piece, empty pieces kept
RECURSIVE Split(_, _)
Split(s, sep) ==
    IF s = <<>> THEN << <<>> >>
    ELSE LET rest == Split(Tail(s), sep)
         IN  IF Head(s) = sep THEN << <<>> >> \o rest
             ELSE << <<Head(s)>> \o Head(rest) >> \o Tail(rest)

RECURSIVE LStrip(_)
LStrip(s) == IF s # <<>> /\ Head(s) = " " THEN LStrip(Tail(s)) ELSE s

RECURSIVE RStrip(_)
RStrip(s) ==
    IF s # <<>> /\ s[Len(s)] = " " THEN RStrip(SubSeq(s, 1, Len(s)-1)) ELSE s

\* str.strip()
Strip(s) == LStrip(RStrip(s))

\* str.replace('"', '')
RemoveQuotes(s) == LET NotQuote(c) == c # "\"" IN SelectSeq(s, NotQuote)

\* ",".join(cells)
RECURSIVE Join(_)
Join(cells) ==
    IF cells = <<>> THEN <<>>
    ELSE IF Len(cells) = 1 THEN cells[1]
    ELSE cells[1] \o <<",">> \o Join(Tail(cells))

\* needle in haystack
IsSubstring(needle, hay) ==
    \E i \in 0..(Len(hay) - Len(needle)) :
        \A j \in 1..Len(needle) : hay[i + j] = needle[j]

---------------------------------------------------------------------------
(* The catalog: career_data.csv as read by pandas.  A cell of a text       *)
(* column is a non-empty string.                                           *)

Personalities == {"Introvert", "Extrovert", "Ambivert/Any"}

\* the options of the interests multiselect, each a one-word string
interest_options ==
    {<<"AI">>, <<"Web">>, <<"Data">>, <<"Design">>, <<"Security">>,
     <<"Business">>, <<"Gaming">>, <<"People">>, <<"Research">>}

\* the selections of interests considered
InterestChoices == SUBSET {<<"AI">>, <<"Data">>}

\* the slider positions considered, besides the sliders' defaults
MathChoices == {40, 60}
CodeChoices == {60}

Row(title, skills, interests, minMath, minCode, pers) ==
    [Title |-> title, Skills |-> skills, Interests |-> interests,
     Min_Math |-> minMath, Min_Code |-> minCode, Personality |-> pers]

\* a sample table; P and S stand for two skill names
JobTable ==
    << Row("Data Analyst", <<"P", ",", "S">>, <<"Data">>, 50, 50, "Introvert"),
       Row("BI Developer", <<"S", ",", " ", "P">>, <<"Data">>, 50, 50, "Introvert"),
       Row("Product Manager", <<" ">>, <<"Business", ",", " ", "People">>,
           0, 0, "Extrovert"),
       Row("AI Engineer", <<"\"", "P", "\"", ",", " ", "S">>,
           <<"AI", ",", " ", "Data">>, 60, 65, "Ambivert/Any"),
       Row("Web Developer", <<"S">>, <<"Web">>, 60, 60, "Extrovert"),
       Row("Researcher", <<"P">>, <<"Research", ",", "AI">>, 60, 50, "Introvert") >>

\* the catalogs considered: the runs of at most MaxJobs consecutive rows
Catalogs ==
    {SubSeq(JobTable, i, j) : <<i, j>> \in
        {p \in (1..Len(JobTable)) \X (1..Len(JobTable)) :
            p[1] <= p[2] /\ p[2] - p[1] < MaxJobs}}

\* load_data(): st.cache_data hands every run its own copy of the cached frame
load_data == catalog

---------------------------------------------------------------------------
(* The skill vocabulary *)

Column(frame, name) == [i \in 1..Len(frame) |-> frame[i][name]]

\* sorted(list): the list in ascending order (by insertion)
RECURSIVE Insert(_, _)
Insert(x, sorted) ==
    IF sorted = <<>> THEN <<x>>
    ELSE IF StrLeq(x, Head(sorted)) THEN <<x>> \o sorted
    ELSE <<Head(sorted)>> \o Insert(x, Tail(sorted))

\* sorted([s.strip() for s in tokens if s.strip()]), tokens a set of strings
RECURSIVE SortedStripped(_)
SortedStripped(tokens) ==
    IF tokens = {} THEN <<>>
    ELSE LET t == CHOOSE u \in tokens : TRUE
             rest == SortedStripped(tokens \ {t})
         IN  IF Strip(t) # <<>> THEN Insert(Strip(t), rest) ELSE rest

Vocabulary(frame) ==
    LET joined == RemoveQuotes(Join(Column(frame, "Skills")))
        tokens == Range(Split(joined, ","))
    IN  SortedStripped(tokens)

---------------------------------------------------------------------------
(* The resume parser *)

Page(ok, text) == [ok |-> ok, text |-> text]

\* uploaded_file is None
NoFile == [present |-> FALSE, readable |-> TRUE, pages |-> <<>>]

\* two readable pages naming both skills
GoodDoc ==
    [present |-> TRUE, readable |-> TRUE,
     pages |-> <<Page(TRUE, <<"s", " ">>), Page(TRUE, <<"P">>)>>]

\* the first page names a skill, the second cannot be decoded
PartialDoc ==
    [present |-> TRUE, readable |-> TRUE,
     pages |-> <<Page(TRUE, <<"p">>), Page(FALSE, <<>>)>>]

\* PdfReader itself fails
CorruptDoc == [present |-> TRUE, readable |-> FALSE, pages |-> <<>>]

Documents == {GoodDoc, PartialDoc, CorruptDoc}

\* PdfReader(...) and every page.extract_text() succeed
Decodes(file) ==
    file.readable /\ \A i \in 1..Len(file.pages) : file.pages[i].ok

\* resume_text: the pages' text in page order
RECURSIVE ResumeText(_)
ResumeText(pages) ==
    IF pages = <<>> THEN <<>> ELSE Head(pages).text \o ResumeText(Tail(pages))

\* the keyword scan: the vocabulary terms found in the lower-cased text
MatchSkills(text, vocab) ==
    LET resume_text_lower == LowerStr(text)
        Found(skill) == IsSubstring(LowerStr(skill), resume_text_lower)
    IN  SelectSeq(vocab, Found)

\* a plausible slip: a page that cannot be decoded is skipped, not an error
RECURSIVE ReadablePages(_)
ReadablePages(pages) ==
    IF pages = <<>> THEN <<>>
    ELSE IF Head(pages).ok THEN <<Head(pages)>> \o ReadablePages(Tail(pages))
    ELSE ReadablePages(Tail(pages))

ExtractSkillsSkippingBadPages(file, vocab) ==
    IF ~file.present THEN <<>>
    ELSE MatchSkills(ResumeText(ReadablePages(file.pages)), vocab)

\* extracted_skills at the end of the resume block: the list is filled only
\* after every page was read, so an exception leaves it empty
ExtractSkills(file, vocab) ==
    IF file.present /\ Decodes(file)
    THEN MatchSkills(ResumeText(file.pages), vocab)
    ELSE <<>>

\* st.success / st.warning / st.error of the resume block
ResumeMessage(file, found) ==
    IF ~file.present THEN "none"
    ELSE IF ~Decodes(file) THEN "error"
    ELSE IF found # <<>> THEN "detected"
    ELSE "no_skills"

---------------------------------------------------------------------------
(* The matching engine *)

Frac(n, d) == [num |-> n, den |-> d]
FracLess(a, b) == a.num * b.den < b.num * a.den
FracEq(a, b) == a.num * b.den = b.num * a.den

\* [s.strip() for s in row['Skills'].split(',')]
JobSkills(row) ==
    LET pieces == Split(row.Skills, ",")
    IN  [i \in 1..Len(pieces) |-> Strip(pieces[i])]

\* [i.strip() for i in row['Interests'].split(',')]
JobInterests(row) ==
    LET pieces == Split(row.Interests, ",")
    IN  [i \in 1..Len(pieces) |-> Strip(pieces[i])]

\* set(selected_interests).intersection(set(job_interests))
CommonInterests(row, interests) == interests \cap Range(JobInterests(row))

InterestBonus(row, interests) ==
    Cardinality(CommonInterests(row, interests)) * InterestWeight

\* a plausible slip: elif, so that at most one penalty applies
PenaltiesExclusive(row, m, c) ==
    IF m < row.Min_Math THEN PenaltyPoints
    ELSE IF c < row.Min_Code THEN PenaltyPoints
    ELSE 0

\* the two independent penalties
Penalties(row, m, c) ==
    (IF m < row.Min_Math THEN PenaltyPoints ELSE 0)
    + (IF c < row.Min_Code THEN PenaltyPoints ELSE 0)

\* a plausible slip: the "Ambivert/Any" test left out
BonusOnAnyMatch(row, p) ==
    IF p = row.Personality THEN PersonalityBonus ELSE 0

BonusFor(row, p) ==
    IF p # "Ambivert/Any" /\ p = row.Personality THEN PersonalityBonus ELSE 0

\* a plausible slip: only the floor is applied
ClampFloorOnly(total) ==
    IF total.num < 0 THEN Frac(0, total.den) ELSE total

\* max(0, min(100, total_score))
Clamp(total) ==
    LET capped == IF total.num > ScoreCeiling * total.den
                  THEN Frac(ScoreCeiling * total.den, total.den) ELSE total
    IN  IF capped.num < 0 THEN Frac(0, capped.den) ELSE capped

\* one pass of the loop body; len(job_skills) = 0 would raise ZeroDivisionError
ScoreRow(row, skills, interests, m, c, p) ==
    LET job_skills == JobSkills(row)
        common_skills == skills \cap Range(job_skills)
        n == Len(job_skills)
    IN  IF n = 0 THEN [raised |-> TRUE]
        ELSE
        LET skill_match_pct == Frac(Cardinality(common_skills) * 100, n)
            interest_bonus == InterestBonus(row, interests)
            penalty == Penalties(row, m, c)
            bonus == BonusFor(row, p)
            total_score ==
                Frac(skill_match_pct.num + (interest_bonus - penalty + bonus) * n, n)
        IN  [raised |-> FALSE,
             job_skills |-> job_skills,
             common_skills |-> common_skills,
             skill_match_pct |-> skill_match_pct,
             interest_bonus |-> interest_bonus,
             penalty |-> penalty,
             bonus |-> bonus,
             total_score |-> total_score,
             final_score |-> Clamp(total_score)]

\* a plausible slip: every listed skill reported as missing
MissingUnfiltered(job_skills, skills) == job_skills

\* [s for s in job_skills if s not in set(selected_skills)]
Missing(job_skills, skills) ==
    LET NotSelected(s) == s \notin skills IN SelectSeq(job_skills, NotSelected)

\* df['Final_Score'] = final_results
WithScores(frame, results) ==
    [i \in 1..Len(frame) |->
        [Title |-> frame[i].Title, Skills |-> frame[i].Skills,
         Interests |-> frame[i].Interests, Min_Math |-> frame[i].Min_Math,
         Min_Code |-> frame[i].Min_Code, Personality |-> frame[i].Personality,
         Final_Score |-> results[i]]]

Min2(a, b) == IF a < b THEN a ELSE b

\* df.sort_values(by='Final_Score', ascending=False).head(3), as row indices.
\* sort_values is called with its default kind ('quicksort'), which pandas
\* documents as not stable: rows with equal scores may come out in any order.
TopOrders(results) ==
    LET n == Len(results)
        k == Min2(TopN, n)
    IN  {t \in [1..k -> 1..n] :
            /\ \A a, b \in 1..k : a # b => t[a] # t[b]
            /\ \A a \in 1..(k-1) : ~FracLess(results[t[a]], results[t[a+1]])
            /\ \A i \in 1..n : (\A a \in 1..k : t[a] # i)
                                  => ~FracLess(results[t[k]], results[i])}

---------------------------------------------------------------------------
(* One run of the script *)

\* a plausible slip: the empty selection is not tested
NoSkillsIgnored(skills) == FALSE

\* not selected_skills
NoSkills(skills) == skills = {}

\* The Analyze block (lines 89-143) of a run in which the button was clicked.
Analyze(frame, skills, interests, m, c, p) ==
    IF NoSkills(skills)
    THEN /\ status' = "empty_selection"
         /\ df' = frame
         /\ scored' = <<>>
         /\ final_results' = <<>>
         /\ top_jobs' = <<>>
         /\ missing' = <<>>
    ELSE
    LET locals == [i \in 1..Len(frame) |->
                      ScoreRow(frame[i], skills, interests, m, c, p)]
    IN  IF \E i \in 1..Len(frame) : locals[i].raised
        THEN \* an uncaught exception ends the run inside the loop
             /\ status' = "exception"
             /\ df' = frame
             /\ scored' = <<>>
             /\ final_results' = <<>>
             /\ top_jobs' = <<>>
             /\ missing' = <<>>
        ELSE
        LET results == [i \in 1..Len(frame) |-> locals[i].final_score]
        IN  /\ status' = "complete"
            /\ scored' = locals
            /\ final_results' = results
            /\ df' = WithScores(frame, results)
            /\ \E order \in TopOrders(results) :
                  /\ top_jobs' = order
                  /\ missing' = [k \in 1..Len(order) |->
                                    Missing(JobSkills(frame[order[k]]), skills)]

\* A run in which the button was not clicked: the block is skipped.
NoAnalysis(frame) ==
    /\ status' = "idle"
    /\ df' = frame
    /\ scored' = <<>>
    /\ final_results' = <<>>
    /\ top_jobs' = <<>>
    /\ missing' = <<>>

\* The script from top to bottom with the given widget values.  The skills
\* multiselect takes its default when the default differs from the one it
\* was created with, and keeps the user's selection otherwise.
Script(file, skills, interests, m, c, p, clicked) ==
    /\ catalog' = catalog
    /\ all_skills' = Vocabulary(load_data)
    /\ uploaded_file' = file
    /\ extracted_skills' = ExtractSkills(file, all_skills')
    /\ resume_msg' = ResumeMessage(file, extracted_skills')
    /\ selected_skills' = IF extracted_skills' # extracted_skills
                          THEN Range(extracted_skills') ELSE skills
    /\ selected_interests' = interests
    /\ math_score' = m
    /\ code_score' = c
    /\ personality' = p
    /\ IF clicked THEN Analyze(load_data, selected_skills', interests, m, c, p)
                  ELSE NoAnalysis(load_data)

---------------------------------------------------------------------------
(* The first run of a session: no file, every widget at its default *)

Init ==
    /\ catalog \in Catalogs
    /\ df = catalog
    /\ all_skills = Vocabulary(catalog)
    /\ uploaded_file = NoFile
    /\ extracted_skills = <<>>
    /\ resume_msg = "none"
    /\ selected_skills = {}
    /\ math_score = DefaultMath
    /\ code_score = DefaultCode
    /\ personality = "Introvert"
    /\ selected_interests = {<<"AI">>, <<"Data">>}
    /\ status = "idle"
    /\ scored = <<>>
    /\ final_results = <<>>
    /\ top_jobs = <<>>
    /\ missing = <<>>

(* The interactions, each followed by a run of the script *)

UploadResume ==
    \E file \in Documents \cup {NoFile} :
        /\ file # uploaded_file
        /\ Script(file, selected_skills, selected_interests,
                  math_score, code_score, personality, FALSE)

SelectSkills ==
    \E skills \in SUBSET Range(all_skills) :
        /\ skills # selected_skills
        /\ Script(uploaded_file, skills, selected_interests,
                  math_score, code_score, personality, FALSE)

SelectInterests ==
    \E interests \in InterestChoices :
        /\ interests # selected_interests
        /\ Script(uploaded_file, selected_skills, interests,
                  math_score, code_score, personality, FALSE)

SetMath ==
    \E m \in MathChoices \cup {DefaultMath} :
        /\ m # math_score
        /\ Script(uploaded_file, selected_skills, selected_interests,
                  m, code_score, personality, FALSE)

SetCode ==
    \E c \in CodeChoices \cup {DefaultCode} :
        /\ c # code_score
        /\ Script(uploaded_file, selected_skills, selected_interests,
                  math_score, c, personality, FALSE)

SetPersonality ==
    \E p \in Personalities :
        /\ p # personality
        /\ Script(uploaded_file, selected_skills, selected_interests,
                  math_score, code_score, p, FALSE)

ClickAnalyze ==
    Script(uploaded_file, selected_skills, selected_interests,
           math_score, code_score, personality, TRUE)

Next ==
    \/ UploadResume
    \/ SelectSkills
    \/ SelectInterests
    \/ SetMath
    \/ SetCode
    \/ SetPersonality
    \/ ClickAnalyze

Spec == Init /\ [][Next]_vars

---------------------------------------------------------------------------
(* Properties *)

\* the rows that were scored in this run
Scored == 1..Len(final_results)

\* C1: every final score computed by the matching loop is at least 0 and at
\* most 100, for every row and every profile.
ScoreWithinRange ==
    \A i \in Scored :
        /\ final_results[i].den > 0
        /\ 0 <= final_results[i].num
        /\ final_results[i].num <= 100 * final_results[i].den

\* a run in which the sum before clamping exceeded 100
ScoreWasCapped ==
    /\ status = "complete"
    /\ \E i \in Scored :
          /\ scored[i].total_score.num > 100 * scored[i].total_score.den
          /\ FracEq(final_results[i], Frac(100, 1))

\* the score the specification prescribes: clamp(S + I - P + B, 0, 100)
PrescribedScore(row, skills, interests, m, c, p) ==
    LET required == Range(JobSkills(row))
        d == Cardinality(required)
        S == 100 * Cardinality(skills \cap required)
        I == 15 * Cardinality(interests \cap Range(JobInterests(row)))
        P == (IF m < row.Min_Math THEN 10 ELSE 0)
             + (IF c < row.Min_Code THEN 10 ELSE 0)
        B == IF row.Personality # "Ambivert/Any" /\ row.Personality = p
             THEN 5 ELSE 0
        raw == S + (I - P + B) * d
    IN  IF raw < 0 THEN Frac(0, 1)
        ELSE IF raw > 100 * d THEN Frac(100, 1)
        ELSE Frac(raw, d)

\* the profile of the specification's example, but for the math score
ExampleProfile ==
    /\ status = "complete"
    /\ catalog[1] = JobTable[1]
    /\ selected_skills = {<<"P">>}
    /\ selected_interests = {<<"Data">>}
    /\ code_score = 60
    /\ personality = "Introvert"

EmptySelectionRejected ==
    /\ status = "empty_selection" =>
          /\ selected_skills = {}
          /\ scored = <<>>
          /\ final_results = <<>>
          /\ top_jobs = <<>>
          /\ df = catalog
    /\ selected_skills = {} => status \in {"idle", "empty_selection"}

\* the button was clicked with nothing selected
EmptySelectionSeen == status = "empty_selection" /\ Len(catalog) > 1

RECURSIVE IsSubsequence(_, _)
IsSubsequence(a, b) ==
    IF a = <<>> THEN TRUE
    ELSE IF b = <<>> THEN FALSE
    ELSE IF Head(a) = Head(b) THEN IsSubsequence(Tail(a), Tail(b))
    ELSE IsSubsequence(a, Tail(b))

\* C6: for every job shown, the matched skills and the missing skills are
\* disjoint, together they are exactly the job's required skills, and the
\* missing skills come in the job's listing order.
MatchedMissingPartition ==
    \A k \in 1..Len(top_jobs) :
        LET i == top_jobs[k]
            required == JobSkills(catalog[i])
            matched == scored[i].common_skills
        IN  /\ Range(missing[k]) \cap matched = {}
            /\ Range(missing[k]) \cup matched = Range(required)
            /\ IsSubsequence(missing[k], required)

\* a shown job with a matched and a missing skill
PartlyMatchedJob ==
    /\ status = "complete"
    /\ \E k \in 1..Len(top_jobs) :
          /\ missing[k] # <<>>
          /\ scored[top_jobs[k]].common_skills # {}

\* C7: when the user's personality is Ambivert/Any, no job's score includes
\* the personality bonus, whatever the job's preferred personality.
NoBonusForAmbivert ==
    (status = "complete" /\ personality = "Ambivert/Any") =>
        \A i \in Scored :
            /\ scored[i].bonus = 0
            /\ scored[i].total_score.num =
                  scored[i].skill_match_pct.num
                  + (scored[i].interest_bonus - scored[i].penalty)
                    * scored[i].total_score.den

\* an Ambivert/Any user scored against an Ambivert/Any job
AmbivertMeetsAmbivertJob ==
    /\ status = "complete"
    /\ personality = "Ambivert/Any"
    /\ \E i \in Scored : catalog[i].Personality = "Ambivert/Any"

\* the row lists no skill: every piece of its Skills cell is blank
NoRequiredSkills(row) == \A t \in Range(Split(row.Skills, ",")) : Strip(t) = <<>>

DecodeFailureRecoverable ==
    (uploaded_file.present /\ ~Decodes(uploaded_file)) =>
        /\ resume_msg = "error"
        /\ extracted_skills = <<>>
        /\ status # "exception"
        /\ status = "complete" =>
              /\ selected_skills # {}
              /\ \A i \in Scored :
                    FracEq(final_results[i],
                           PrescribedScore(catalog[i], selected_skills,
                                           selected_interests, math_score,
                                           code_score, personality))

\* an analysis completed while a page of the uploaded document is unreadable
AnalysisAfterDecodeFailure ==
    /\ uploaded_file = PartialDoc
    /\ status = "complete"
    /\ Len(top_jobs) = TopN

\* C3: the ranking is in descending score order with equal scores in catalog
\* order, and is the first three rows of that ordering.
RankingStable ==
    status = "complete" =>
        LET Before(i, j) ==
                \/ FracLess(final_results[j], final_results[i])
                \/ FracEq(final_results[i], final_results[j]) /\ i < j
        IN  /\ Len(top_jobs) = Min2(3, Len(catalog))
            /\ \A a, b \in 1..Len(top_jobs) :
                  a < b => Before(top_jobs[a], top_jobs[b])
            /\ \A i \in Scored :
                  (\A a \in 1..Len(top_jobs) : top_jobs[a] # i)
                      => \A a \in 1..Len(top_jobs) : Before(top_jobs[a], i)

\* C5: after any sequence of analyses the loaded frame is as loaded: no row
\* gains or changes a field.
CatalogRowsUnchanged ==
    /\ Len(df) = Len(catalog)
    /\ \A i \in 1..Len(df) :
          /\ DOMAIN df[i] = DOMAIN catalog[i]
          /\ \A f \in DOMAIN catalog[i] : df[i][f] = catalog[i][f]

\* the distinct trimmed, quote-stripped, non-empty skill tokens of a frame
CleanTokens(frame) ==
    UNION {{Strip(RemoveQuotes(t)) : t \in Range(Split(frame[i].Skills, ","))}
              : i \in 1..Len(frame)} \ {<<>>}

\* C9: the vocabulary holds each distinct trimmed, quote-stripped, non-empty
\* token exactly once, holds no empty token, and is in ascending order.
VocabularyDistinctSorted ==
    /\ Range(all_skills) = CleanTokens(catalog)
    /\ \A a, b \in 1..Len(all_skills) :
          a < b => StrLess(all_skills[a], all_skills[b])

=============================================================================
